---- MODULE Spec2Model ----
(***************************************************************************)
(* Model of the ingestion core of namada-indexer:                          *)
(*   - the balance ledger writer  (chain/src/repository/balance.rs)        *)
(*   - the transfer classifier    (shared/src/utils.rs)                    *)
(*   - the IBC trace resolver     (shared/src/utils.rs)                    *)
(***************************************************************************)
EXTENDS Integers, Sequences, FiniteSets, TLC

(***************************************************************************)
(* Bounds of the model and program constants                               *)
(***************************************************************************)
MaxBatch == 2

MAX_PARAM_SIZE == 65535

Owners == {"o1", "o2"}
Tokens == {"t1", "t2"}
Amounts == {1, 2}

\* Column counts the schema catalog query may report.  The real table has a
\* handful of columns; the large values make floor(MAX_PARAM_SIZE / count)
\* equal to 2, 1 and 0 so that small batches span several chunks.
ColCounts ==
    {0, 3, MAX_PARAM_SIZE \div 2, MAX_PARAM_SIZE, MAX_PARAM_SIZE + 1}

(***************************************************************************)
(* Ledger writer: data                                                     *)
(***************************************************************************)
Keys == [owner : Owners, token : Tokens]
Rows == [owner : Owners, token : Tokens, raw_amount : Amounts]
Batches == UNION {[1..n -> Rows] : n \in 0..MaxBatch}

Key(r) == [owner |-> r.owner, token |-> r.token]

SeqRows(s) == {s[i] : i \in 1..Len(s)}
SeqKeys(s) == {Key(s[i]) : i \in 1..Len(s)}

\* anyhow::Ok(())
OkResult == [ok |-> TRUE, context |-> "", cause |-> ""]

\* .context("Failed to update balances in db")? : the store's error wrapped
\* with a fixed message
InsertFault(cause) ==
    [ok |-> FALSE, context |-> "Failed to update balances in db",
     cause |-> cause]

\* .get_result::<BalanceColCount>(transaction_conn)? : the store's error
\* passed on as it is
QueryFault(cause) == [ok |-> FALSE, context |-> "", cause |-> cause]

Results ==
    {OkResult}
        \cup {InsertFault(c) : c \in {"cardinality_violation", "store_error"}}
        \cup {QueryFault("store_error")}

\* ON CONFLICT (owner, token) DO UPDATE cannot touch one row twice in a
\* single statement: the store rejects such a statement as a whole.
HasDuplicateKeys(chunk) ==
    \E i, j \in 1..Len(chunk) : i # j /\ Key(chunk[i]) = Key(chunk[j])

\* Variant: ON CONFLICT (owner, token) DO NOTHING, the stored row is kept
OnConflictDoNothing(t, chunk) ==
    t \cup {x \in SeqRows(chunk) : \A y \in t : Key(y) # Key(x)}

\* Variant: SET raw_amount = balances.raw_amount + excluded.raw_amount
OnConflictAdd(t, chunk) ==
    {x \in t : Key(x) \notin SeqKeys(chunk)}
        \cup {[x EXCEPT !.raw_amount =
                    IF \E y \in t : Key(y) = Key(x)
                    THEN x.raw_amount
                            + (CHOOSE y \in t : Key(y) = Key(x)).raw_amount
                    ELSE x.raw_amount] : x \in SeqRows(chunk)}

\* Variant: the conflict target is the owner alone, ON CONFLICT (owner)
OnConflictOwnerOnly(t, chunk) ==
    {x \in t : \A i \in 1..Len(chunk) : chunk[i].owner # x.owner}
        \cup SeqRows(chunk)

\* Variant: the conflict target is the token alone, ON CONFLICT (token)
OnConflictTokenOnly(t, chunk) ==
    {x \in t : \A i \in 1..Len(chunk) : chunk[i].token # x.token}
        \cup SeqRows(chunk)

\* Variant: a plain INSERT, no conflict clause and no unique key
OnConflictInsertOnly(t, chunk) == t \cup SeqRows(chunk)

\* INSERT ... ON CONFLICT (owner, token) DO UPDATE
\*     SET raw_amount = excluded.raw_amount
\* for a statement the store accepts
OnConflictDoUpdate(t, chunk) ==
    {x \in t : Key(x) \notin SeqKeys(chunk)} \cup SeqRows(chunk)

\* insert_balance: every way one call can end, as <<table, result, issued>>
\* (issued: whether a statement reached the store; an empty batch is a no-op
\* insert and returns Ok without one)
insert_balance(t, chunk) ==
    IF chunk = <<>>
    THEN {[table |-> t, result |-> OkResult, issued |-> FALSE]}
    ELSE {[table |-> t, result |-> InsertFault("store_error"),
           issued |-> TRUE]}
         \cup
         (IF HasDuplicateKeys(chunk)
          THEN {[table |-> t,
                 result |-> InsertFault("cardinality_violation"),
                 issued |-> TRUE]}
          ELSE {[table |-> OnConflictDoUpdate(t, chunk),
                 result |-> OkResult, issued |-> TRUE]})

\* Variant: the parameter ceiling taken as a row ceiling, whatever the
\* number of columns
ChunkSizeRowsOnly(count) == MAX_PARAM_SIZE

\* (MAX_PARAM_SIZE as i64 / balances_col_count.count) as usize
ChunkSize(count) == MAX_PARAM_SIZE \div count

Min(a, b) == IF a < b THEN a ELSE b

\* slice::chunks(k): the number of chunks and the i-th chunk (from 0)
NumChunks(n, k) == (n + k - 1) \div k
Chunk(b, k, i) == SubSeq(b, i * k + 1, Min((i + 1) * k, Len(b)))

(***************************************************************************)
(* Ledger writer: state                                                    *)
(***************************************************************************)
VARIABLES
    table,        \* rows of the balances table as seen in the caller's scope
    pc,           \* "idle", "called", "chunks", "done", "panicked"
    op,           \* the function called
    balances,     \* its batch argument
    colCount,     \* balances_col_count.count
    chunkIdx,     \* index of the next chunk of the for loop
    result,       \* the value returned
    stmts,        \* upsert statements issued by this call: rows and outcome
    tableAtCall,  \* the table when the call began
    run,          \* 1: first run of the batch, 2: the caller ran it again
    firstResult,  \* result of the first run, while the batch is run again
    firstStmts,   \* statements of the first run
    firstTable    \* table after the first run

writerVars ==
    <<table, pc, op, balances, colCount, chunkIdx, result, stmts,
      tableAtCall, run, firstResult, firstStmts, firstTable>>

(***************************************************************************)
(* Transfer classifier: data and state                                     *)
(***************************************************************************)
MaxAccounts == 2

\* Address::Internal(InternalAddress::Masp)
MASP_ADDRESS == "masp"

TxOwners == {MASP_ADDRESS} \cup Owners
Accounts == [owner : TxOwners, token : Tokens]
AccountSets == {S \in SUBSET Accounts : Cardinality(S) <= MaxAccounts}

\* sources and targets: maps from Account to amount
AccountMaps == UNION {[S -> Amounts] : S \in AccountSets}

\* namada_sdk::token::Transfer; shielded_section_hash is Some or None
Transfers ==
    [sources : AccountMaps, targets : AccountMaps,
     shielded_section_hash : BOOLEAN]

EmptyMap == [a \in {} |-> 1]

NoTransfer ==
    [sources |-> EmptyMap, targets |-> EmptyMap,
     shielded_section_hash |-> FALSE]

\* .iter().fold((true, false), |(all, any), (acc, _)| ...) over the keys
RECURSIVE FoldMasp(_, _)
FoldMasp(accs, acc) ==
    IF accs = {}
    THEN acc
    ELSE LET a == CHOOSE x \in accs : TRUE
             is_masp == a.owner = MASP_ADDRESS
         IN FoldMasp(accs \ {a}, <<acc[1] /\ is_masp, acc[2] \/ is_masp>>)

MaspFlags(m) == FoldMasp(DOMAIN m, <<TRUE, FALSE>>)

TxResult(kind, arm, data) == [kind |-> kind, arm |-> arm, data |-> data]

\* Variant of the match: the fourth arm written without the marker,
\* (_, false, _, false, _)
MatchArmsNoMarker(all_sources_are_masp, any_sources_are_masp, all_targets_are_masp, any_targets_are_masp, has_shielded_section) ==
    IF all_sources_are_masp /\ all_targets_are_masp /\ has_shielded_section
    THEN <<"ShieldedTransfer", "arm1">>
    ELSE IF all_sources_are_masp /\ ~any_targets_are_masp
            /\ has_shielded_section
    THEN <<"UnshieldingTransfer", "arm2">>
    ELSE IF ~any_sources_are_masp /\ all_targets_are_masp
            /\ has_shielded_section
    THEN <<"ShieldingTransfer", "arm3">>
    ELSE IF ~any_sources_are_masp /\ ~any_targets_are_masp
    THEN <<"TransparentTransfer", "arm4">>
    ELSE <<"MixedTransfer", "arm5">>

\* Variant of the match: the fourth arm written on the all flags,
\* (false, _, false, _, false)
MatchArmsAllForAny(all_sources_are_masp, any_sources_are_masp, all_targets_are_masp, any_targets_are_masp, has_shielded_section) ==
    IF all_sources_are_masp /\ all_targets_are_masp /\ has_shielded_section
    THEN <<"ShieldedTransfer", "arm1">>
    ELSE IF all_sources_are_masp /\ ~any_targets_are_masp
            /\ has_shielded_section
    THEN <<"UnshieldingTransfer", "arm2">>
    ELSE IF ~any_sources_are_masp /\ all_targets_are_masp
            /\ has_shielded_section
    THEN <<"ShieldingTransfer", "arm3">>
    ELSE IF ~all_sources_are_masp /\ ~all_targets_are_masp
            /\ ~has_shielded_section
    THEN <<"TransparentTransfer", "arm4">>
    ELSE <<"MixedTransfer", "arm5">>

\* Variant of the match: the first two arms in the other order
MatchArmsSwapped(all_sources_are_masp, any_sources_are_masp, all_targets_are_masp, any_targets_are_masp, has_shielded_section) ==
    IF all_sources_are_masp /\ ~any_targets_are_masp
       /\ has_shielded_section
    THEN <<"UnshieldingTransfer", "arm2">>
    ELSE IF all_sources_are_masp /\ all_targets_are_masp
            /\ has_shielded_section
    THEN <<"ShieldedTransfer", "arm1">>
    ELSE IF ~any_sources_are_masp /\ all_targets_are_masp
            /\ has_shielded_section
    THEN <<"ShieldingTransfer", "arm3">>
    ELSE IF ~any_sources_are_masp /\ ~any_targets_are_masp
            /\ ~has_shielded_section
    THEN <<"TransparentTransfer", "arm4">>
    ELSE <<"MixedTransfer", "arm5">>

\* The match of transfer_to_tx_kind, first arm that matches: the kind and
\* the arm that returned it
MatchArms(all_sources_are_masp, any_sources_are_masp, all_targets_are_masp, any_targets_are_masp, has_shielded_section) ==
    IF all_sources_are_masp /\ all_targets_are_masp /\ has_shielded_section
    THEN <<"ShieldedTransfer", "arm1">>
    ELSE IF all_sources_are_masp /\ ~any_targets_are_masp
            /\ has_shielded_section
    THEN <<"UnshieldingTransfer", "arm2">>
    ELSE IF ~any_sources_are_masp /\ all_targets_are_masp
            /\ has_shielded_section
    THEN <<"ShieldingTransfer", "arm3">>
    ELSE IF ~any_sources_are_masp /\ ~any_targets_are_masp
            /\ ~has_shielded_section
    THEN <<"TransparentTransfer", "arm4">>
    ELSE <<"MixedTransfer", "arm5">>

\* Variant: no return before the folds
transfer_to_tx_kind_no_early_return(data) ==
    LET src == MaspFlags(data.sources)
        tgt == MaspFlags(data.targets)
        m == MatchArms(src[1], src[2], tgt[1], tgt[2],
                       data.shielded_section_hash)
    IN  TxResult(m[1], m[2], data)

\* transfer_to_tx_kind; arm names the place that returned: "early" for the
\* return before the folds, "arm1".."arm5" for the arms of the match
transfer_to_tx_kind(data) ==
    LET has_shielded_section == data.shielded_section_hash IN
    IF /\ has_shielded_section
       /\ DOMAIN data.sources = {}
       /\ DOMAIN data.targets = {}
    THEN TxResult("ShieldedTransfer", "early", data)
    ELSE
        LET src == MaspFlags(data.sources)
            tgt == MaspFlags(data.targets)
            m == MatchArms(src[1], src[2], tgt[1], tgt[2],
                           has_shielded_section)
        IN  TxResult(m[1], m[2], data)

VARIABLES
    txPc,     \* "off", "input", "classified"
    txData,   \* the Transfer handed to transfer_to_tx_kind
    txKind    \* the TransactionKind returned

txVars == <<txPc, txData, txKind>>

NoKind == TxResult("none", "none", NoTransfer)

TxOff ==
    /\ txPc = "off"
    /\ txData = NoTransfer
    /\ txKind = NoKind

(***************************************************************************)
(* Trace resolver: data and state                                          *)
(***************************************************************************)
MaxHops == 2

Ports == {"transfer", "icahost"}
Channels == {"channel-0", "channel-1"}
BaseDenoms == {"uatom", "nam"}

\* TracePrefix::new(port_id, channel_id)
TracePrefixNew(port, channel) == [port_id |-> port, channel_id |-> channel]

TracePrefixes == [port_id : Ports, channel_id : Channels]
TracePaths == UNION {[1..n -> TracePrefixes] : n \in 0..MaxHops}

\* PrefixedDenom: trace_path (outermost hop first) and base_denom
PrefixedDenoms == [trace_path : TracePaths, base_denom : BaseDenoms]

\* A string is modelled as the sequence of its "/"-separated segments.
RECURSIVE FormatTracePath(_)
FormatTracePath(path) ==
    IF path = <<>>
    THEN <<>>
    ELSE <<path[1].port_id, path[1].channel_id>>
            \o FormatTracePath(Tail(path))

\* Display for PrefixedDenom: "{trace_path}/{base_denom}", or the base
\* denomination alone when the trace path is empty
FormatDenom(denom) == FormatTracePath(denom.trace_path) \o <<denom.base_denom>>

\* TracePath::starts_with
StartsWith(path, prefix) == path # <<>> /\ path[1] = prefix

\* TracePath::remove_prefix
RemovePrefix(path, prefix) ==
    IF StartsWith(path, prefix) THEN Tail(path) ELSE path

None == [some |-> FALSE, value |-> <<>>]
Some(s) == [some |-> TRUE, value |-> s]

\* format!("{receiver_port}/{receiver_channel}/{sender_denom}")
FormatTrace(receiver_port, receiver_channel, sender_denom) ==
    <<receiver_port, receiver_channel>> \o FormatDenom(sender_denom)

\* Variant: the synthesized trace stamped with the sender's port and channel
get_namada_ibc_trace_sender(sender_denom, sender_port, sender_channel, receiver_port, receiver_channel) ==
    LET prefix == TracePrefixNew(sender_port, sender_channel) IN
    IF ~StartsWith(sender_denom.trace_path, prefix)
    THEN Some(FormatTrace(sender_port, sender_channel, sender_denom))
    ELSE
        LET denom == [sender_denom EXCEPT
                        !.trace_path = RemovePrefix(@, prefix)]
        IN  IF denom.trace_path = <<>>
            THEN None
            ELSE Some(FormatTrace(sender_port, sender_channel,
                                  sender_denom))

\* Variant: every trace that starts with the sender's prefix taken as native
get_namada_ibc_trace_prefix_is_native(sender_denom, sender_port, sender_channel, receiver_port, receiver_channel) ==
    LET prefix == TracePrefixNew(sender_port, sender_channel) IN
    IF ~StartsWith(sender_denom.trace_path, prefix)
    THEN Some(FormatTrace(receiver_port, receiver_channel, sender_denom))
    ELSE None

get_namada_ibc_trace(sender_denom, sender_port, sender_channel, receiver_port, receiver_channel) ==
    LET prefix == TracePrefixNew(sender_port, sender_channel) IN
    IF ~StartsWith(sender_denom.trace_path, prefix)
    THEN Some(FormatTrace(receiver_port, receiver_channel, sender_denom))
    ELSE
        LET denom == [sender_denom EXCEPT
                        !.trace_path = RemovePrefix(@, prefix)]
        IN  IF denom.trace_path = <<>>
            THEN None
            ELSE Some(FormatTrace(receiver_port, receiver_channel,
                                  sender_denom))

VARIABLES
    ibcPc,     \* "off", "input", "resolved"
    ibcIn,     \* the arguments of get_namada_ibc_trace
    ibcTrace   \* the Option<String> returned

ibcVars == <<ibcPc, ibcIn, ibcTrace>>

TraceInputs ==
    [sender_denom : PrefixedDenoms,
     sender_port : Ports, sender_channel : Channels,
     receiver_port : Ports, receiver_channel : Channels]

NoTraceInput ==
    [sender_denom |-> [trace_path |-> <<>>, base_denom |-> "nam"],
     sender_port |-> "transfer", sender_channel |-> "channel-0",
     receiver_port |-> "transfer", receiver_channel |-> "channel-0"]

IbcOff ==
    /\ ibcPc = "off"
    /\ ibcIn = NoTraceInput
    /\ ibcTrace = None

(***************************************************************************)
(* Relayed (IBC) classifier: data and state                                *)
(***************************************************************************)
\* FT_PORT_ID_STR and NFT_PORT_ID_STR
FT_PORT_ID_STR == "transfer"
NFT_PORT_ID_STR == "nft-transfer"

\* namada_sdk::address::IBC, the bridge account
IBC == "ibc"

\* the native_token argument
NativeTokens == {"nam"}

\* port_id_on_b of a received packet
ReceiverPorts == {FT_PORT_ID_STR, NFT_PORT_ID_STR, "icahost"}

\* base denominations of relayed packets; "nam-lp" has the native token's
\* address as a proper substring
RelayBaseDenoms == BaseDenoms \cup {"nam-lp"}
RelayDenoms == [trace_path : TracePaths, base_denom : RelayBaseDenoms]

\* receiver / sender of the packet data: an address or not
Signers == {"o1", "not-an-address"}

\* IbcMessage::Envelope(MsgEnvelope::Packet(PacketMsg::Recv(msg)))
RecvEnvelopes ==
    [variant : {"Envelope"}, packet : {"Recv"},
     port_id_on_a : Ports, chan_id_on_a : Channels,
     port_id_on_b : ReceiverPorts, chan_id_on_b : Channels,
     decodes : BOOLEAN, denom : RelayDenoms, amount : Amounts,
     receiver : Signers, masp_tx : BOOLEAN]

\* IbcMessage::Envelope of any other kind
OtherEnvelopes == [variant : {"Envelope"}, packet : {"Other"}]

\* transfer.transfer: None, or a Transfer with or without a shielded section
OptionalTransfers ==
    {[some |-> FALSE, shielded_section_hash |-> FALSE]}
        \cup [some : {TRUE}, shielded_section_hash : BOOLEAN]

\* IbcMessage::Transfer(transfer)
OutgoingTransfers ==
    [variant : {"Transfer"}, denom : RelayDenoms, amount : Amounts,
     sender : Signers,
     transfer : OptionalTransfers]

\* IbcMessage::NftTransfer(_)
NftTransfers == [variant : {"NftTransfer"}]

IbcMessages ==
    RecvEnvelopes \cup OtherEnvelopes \cup OutgoingTransfers \cup NftTransfers

\* str::contains for a needle without "/": it lies within one segment
IsSubstring(needle, seg) ==
    seg = needle \/ (needle = "nam" /\ seg = "nam-lp")

Contains(str, needle) == \E i \in 1..Len(str) : IsSubstring(needle, str[i])

\* a panic (expect, panic!, todo!) with its message
Panic(msg) == [outcome |-> "panic", msg |-> msg]

\* a TransactionKind returned
Relayed(kind, token_id, data) ==
    [outcome |-> "kind", kind |-> kind, token_id |-> token_id, data |-> data]

\* TransactionKind::IbcMsg(Some(ser::IbcMessage(ibc_data)))
IbcMsg(ibc_data) == Relayed("IbcMsg", "none", ibc_data)

\* token::ibc_token(trace): the address derived from a trace
IbcTokenAddress(trace) == [ibc_token |-> trace]

\* Token::Native / Token::Ibc
TokenNative(native_token) == [token |-> "Native", address |-> native_token]
TokenIbc(trace) ==
    [token |-> "Ibc", address |-> IbcTokenAddress(trace), trace |-> trace]

\* DenominatedAmount::native(amount) and DenominatedAmount::new(amount, 0)
DenominatedNative(amount) == [amount |-> amount, denom |-> 6]
DenominatedNew(amount) == [amount |-> amount, denom |-> 0]

\* namada_ibc::trace::convert_to_address(..).expect(..): a string with a
\* trace path gives the token's address, one without is refused
ConvertToAddressFails(trace) == Len(trace) < 3

TokenAndAmount(address, token_id, amount) ==
    [outcome |-> "ok", address |-> address, token_id |-> token_id,
     denominated_amount |-> amount]

get_token_and_amount(maybe_ibc_trace, amount, native_token, original_denom) ==
    IF maybe_ibc_trace.some
    THEN IF ConvertToAddressFails(maybe_ibc_trace.value)
         THEN Panic("Failed to convert IBC trace to address")
         ELSE TokenAndAmount(IbcTokenAddress(maybe_ibc_trace.value),
                             TokenIbc(maybe_ibc_trace.value),
                             DenominatedNew(amount))
    ELSE IF ~Contains(FormatDenom(original_denom), native_token)
         THEN Panic("Attempting to add native token other than NAM to the database")
         ELSE TokenAndAmount(native_token, TokenNative(native_token),
                             DenominatedNative(amount))

\* AccountsMap([(Account {owner, token}, denominated_amount)].into())
OneAccount(owner, token, denominated_amount) ==
    [a \in {[owner |-> owner, token |-> token]} |-> denominated_amount]

\* Variant: the bridge account on the receiving side of a received packet
RecvTransferDataBridgeTarget(tk, receiver) ==
    [sources |-> OneAccount(receiver, tk.address, tk.denominated_amount),
     targets |-> OneAccount(IBC, tk.address, tk.denominated_amount),
     shielded_section_hash |-> FALSE]

\* TransferData of a received packet: from the bridge account to the receiver
RecvTransferData(tk, receiver) ==
    [sources |-> OneAccount(IBC, tk.address, tk.denominated_amount),
     targets |-> OneAccount(receiver, tk.address, tk.denominated_amount),
     shielded_section_hash |-> FALSE]

\* TransferData of an outgoing transfer: from the sender to the bridge account
SendTransferData(tk, sender, shielded_section_hash) ==
    [sources |-> OneAccount(sender, tk.address, tk.denominated_amount),
     targets |-> OneAccount(IBC, tk.address, tk.denominated_amount),
     shielded_section_hash |-> shielded_section_hash]

\* transfer_to_ibc_tx_kind, a received packet on the fungible-token port
RecvFungible(msg, native_token) ==
    IF ~msg.decodes
    THEN Panic("Could not deserialize IBC fungible token packet")
    ELSE
        LET maybe_ibc_trace ==
                get_namada_ibc_trace(msg.denom, msg.port_id_on_a,
                                     msg.chan_id_on_a, msg.port_id_on_b,
                                     msg.chan_id_on_b)
            tk == get_token_and_amount(maybe_ibc_trace, msg.amount,
                                       native_token, msg.denom)
        IN
        IF tk.outcome = "panic"
        THEN tk
        ELSE IF msg.receiver = "not-an-address"
        THEN Panic("Failed to convert IBC signer to address")
        ELSE
            LET transfer_data == RecvTransferData(tk, msg.receiver)
                is_shielding == msg.masp_tx
            IN  IF is_shielding
                THEN Relayed("IbcShieldingTransfer", tk.token_id,
                             transfer_data)
                ELSE Relayed("IbcTrasparentTransfer", tk.token_id,
                             transfer_data)

\* transfer_to_ibc_tx_kind, IbcMessage::Transfer
SendFungible(transfer, native_token) ==
    LET ibc_trace == FormatDenom(transfer.denom)
        tk == IF Contains(ibc_trace, native_token)
              THEN TokenAndAmount(native_token, TokenNative(native_token),
                                  DenominatedNative(transfer.amount))
              ELSE IF ConvertToAddressFails(ibc_trace)
              THEN Panic("Failed to convert IBC trace to address")
              ELSE TokenAndAmount(IbcTokenAddress(ibc_trace),
                                  TokenIbc(ibc_trace),
                                  DenominatedNew(transfer.amount))
    IN
    IF tk.outcome = "panic"
    THEN tk
    ELSE IF transfer.sender = "not-an-address"
    THEN Panic("Failed to convert IBC signer to address")
    ELSE
        LET transfer_data ==
                SendTransferData(tk, transfer.sender,
                    transfer.transfer.some
                        /\ transfer.transfer.shielded_section_hash)
        IN  IF transfer.transfer.some
            THEN Relayed("IbcUnshieldingTransfer", tk.token_id, transfer_data)
            ELSE Relayed("IbcTrasparentTransfer", tk.token_id, transfer_data)

transfer_to_ibc_tx_kind(ibc_data, native_token) ==
    IF ibc_data.variant = "Envelope"
    THEN IF ibc_data.packet = "Recv"
         THEN IF ibc_data.port_id_on_b = FT_PORT_ID_STR
              THEN RecvFungible(ibc_data, native_token)
              ELSE IF ibc_data.port_id_on_b = NFT_PORT_ID_STR
              THEN Panic("IBC NFTs are not yet supported for indexing purposes")
              ELSE IbcMsg(ibc_data)
         ELSE IbcMsg(ibc_data)
    ELSE IF ibc_data.variant = "Transfer"
    THEN SendFungible(ibc_data, native_token)
    ELSE Panic("IBC NFTs are not yet supported for indexing purposes")

VARIABLES
    relayPc,      \* "off", "input", "returned", "panicked"
    relayMsg,     \* the IbcMessage handed to transfer_to_ibc_tx_kind
    relayNative,  \* its native_token argument
    relayOut      \* the TransactionKind returned, or the panic

relayVars == <<relayPc, relayMsg, relayNative, relayOut>>

NoRelayOut == [outcome |-> "none"]

RelayOff ==
    /\ relayPc = "off"
    /\ relayMsg = [variant |-> "NftTransfer"]
    /\ relayNative = "nam"
    /\ relayOut = NoRelayOut

vars == <<writerVars, txVars, ibcVars, relayVars>>

(***************************************************************************)
(* Ledger writer: operations                                               *)
(***************************************************************************)
NoResult == [ok |-> FALSE, context |-> "", cause |-> "none"]

InitWriter ==
    /\ table = {}
    /\ pc = "idle"
    /\ op = "none"
    /\ balances = <<>>
    /\ colCount = 0
    /\ chunkIdx = 0
    /\ result = NoResult
    /\ stmts = <<>>
    /\ tableAtCall = {}
    /\ run = 1
    /\ firstResult = NoResult
    /\ firstStmts = <<>>
    /\ firstTable = {}

Stmt(chunk, res) == [rows |-> Len(chunk), ok |-> res.ok]

\* The caller invokes insert_balance or insert_balance_in_chunks on its scope
Call ==
    /\ pc = "idle"
    /\ \E o \in {"insert_balance", "insert_balance_in_chunks"}, b \in Batches :
        /\ op' = o
        /\ balances' = b
    /\ pc' = "called"
    /\ tableAtCall' = table
    /\ stmts' = <<>>
    /\ chunkIdx' = 0
    /\ result' = NoResult
    /\ UNCHANGED <<table, colCount, run, firstResult, firstStmts, firstTable>>
    /\ UNCHANGED <<txVars, ibcVars, relayVars>>

\* insert_balance called directly: one statement
InsertBalance ==
    /\ pc = "called"
    /\ op = "insert_balance"
    /\ \E out \in insert_balance(table, balances) :
        /\ table' = out.table
        /\ result' = out.result
        /\ stmts' = IF out.issued THEN <<Stmt(balances, out.result)>> ELSE <<>>
    /\ pc' = "done"
    /\ UNCHANGED <<op, balances, colCount, chunkIdx, tableAtCall, run,
                   firstResult, firstStmts, firstTable>>
    /\ UNCHANGED <<txVars, ibcVars, relayVars>>

\* insert_balance_in_chunks, up to the first iteration: the catalog query
\* and the chunk size.  The schema does not change between a run and the run
\* that repeats it: the second query, when it answers, reports the same count.
StartChunks ==
    /\ pc = "called"
    /\ op = "insert_balance_in_chunks"
    /\ \/ /\ result' = QueryFault("store_error")
          /\ pc' = "done"
          /\ UNCHANGED colCount
       \/ \E c \in ColCounts :
            /\ (run = 2 /\ firstResult # QueryFault("store_error"))
                => c = colCount
            /\ colCount' = c
            /\ pc' = IF c = 0 \/ ChunkSize(c) = 0 THEN "panicked" ELSE "chunks"
            /\ UNCHANGED result
    /\ UNCHANGED <<table, op, balances, chunkIdx, stmts, tableAtCall, run,
                   firstResult, firstStmts, firstTable>>
    /\ UNCHANGED <<txVars, ibcVars, relayVars>>

\* Variant: a failed chunk undoes the chunks written before it
ExecChunkRollsBack ==
    /\ pc = "chunks"
    /\ chunkIdx < NumChunks(Len(balances), ChunkSize(colCount))
    /\ LET chunk == Chunk(balances, ChunkSize(colCount), chunkIdx) IN
       \E out \in insert_balance(table, chunk) :
        /\ stmts' = Append(stmts, Stmt(chunk, out.result))
        /\ IF out.result.ok
           THEN /\ table' = out.table
                /\ chunkIdx' = chunkIdx + 1
                /\ UNCHANGED <<pc, result>>
           ELSE /\ table' = tableAtCall
                /\ result' = out.result
                /\ pc' = "done"
                /\ UNCHANGED chunkIdx
    /\ UNCHANGED <<op, balances, colCount, tableAtCall, run, firstResult,
                   firstStmts, firstTable>>
    /\ UNCHANGED <<txVars, ibcVars, relayVars>>

\* Variant: the fault carries the index of the failing chunk
ExecChunkFaultWithIndex ==
    /\ pc = "chunks"
    /\ chunkIdx < NumChunks(Len(balances), ChunkSize(colCount))
    /\ LET chunk == Chunk(balances, ChunkSize(colCount), chunkIdx) IN
       \E out \in insert_balance(table, chunk) :
        /\ table' = out.table
        /\ stmts' = Append(stmts, Stmt(chunk, out.result))
        /\ IF out.result.ok
           THEN /\ chunkIdx' = chunkIdx + 1
                /\ UNCHANGED <<pc, result>>
           ELSE /\ result' = [ok |-> FALSE, context |-> out.result.context,
                              cause |-> out.result.cause,
                              chunk |-> chunkIdx]
                /\ pc' = "done"
                /\ UNCHANGED chunkIdx
    /\ UNCHANGED <<op, balances, colCount, tableAtCall, run, firstResult,
                   firstStmts, firstTable>>
    /\ UNCHANGED <<txVars, ibcVars, relayVars>>

\* one iteration of the for loop: insert_balance(transaction_conn, chunk)?
ExecChunk ==
    /\ pc = "chunks"
    /\ chunkIdx < NumChunks(Len(balances), ChunkSize(colCount))
    /\ LET chunk == Chunk(balances, ChunkSize(colCount), chunkIdx) IN
       \E out \in insert_balance(table, chunk) :
        /\ table' = out.table
        /\ stmts' = Append(stmts, Stmt(chunk, out.result))
        /\ IF out.result.ok
           THEN /\ chunkIdx' = chunkIdx + 1
                /\ UNCHANGED <<pc, result>>
           ELSE /\ result' = out.result
                /\ pc' = "done"
                /\ UNCHANGED chunkIdx
    /\ UNCHANGED <<op, balances, colCount, tableAtCall, run, firstResult,
                   firstStmts, firstTable>>
    /\ UNCHANGED <<txVars, ibcVars, relayVars>>

\* the loop is over: anyhow::Ok(())
FinishChunks ==
    /\ pc = "chunks"
    /\ chunkIdx = NumChunks(Len(balances), ChunkSize(colCount))
    /\ result' = OkResult
    /\ pc' = "done"
    /\ UNCHANGED <<table, op, balances, colCount, chunkIdx, stmts,
                   tableAtCall, run, firstResult, firstStmts, firstTable>>
    /\ UNCHANGED <<txVars, ibcVars, relayVars>>

\* The caller runs the same batch through the same function once more
Rerun ==
    /\ pc = "done"
    /\ run = 1
    /\ run' = 2
    /\ firstResult' = result
    /\ firstStmts' = stmts
    /\ firstTable' = table
    /\ tableAtCall' = table
    /\ stmts' = <<>>
    /\ chunkIdx' = 0
    /\ result' = NoResult
    /\ pc' = "called"
    /\ UNCHANGED <<table, op, balances, colCount>>
    /\ UNCHANGED <<txVars, ibcVars, relayVars>>

\* The caller goes on in the same scope
Return ==
    /\ pc = "done"
    /\ pc' = "idle"
    /\ op' = "none"
    /\ balances' = <<>>
    /\ colCount' = 0
    /\ chunkIdx' = 0
    /\ result' = NoResult
    /\ stmts' = <<>>
    /\ tableAtCall' = {}
    /\ run' = 1
    /\ firstResult' = NoResult
    /\ firstStmts' = <<>>
    /\ firstTable' = {}
    /\ UNCHANGED table
    /\ UNCHANGED <<txVars, ibcVars, relayVars>>


(***************************************************************************)
(* The ledger writer                                                       *)
(***************************************************************************)
Init == InitWriter /\ TxOff /\ IbcOff /\ RelayOff

Next ==
    \/ Call
    \/ InsertBalance
    \/ StartChunks
    \/ ExecChunk
    \/ FinishChunks
    \/ Rerun
    \/ Return

Spec == Init /\ [][Next]_vars

\* The writer's calls one after another in one scope, without the caller's
\* re-run of a batch
NextCalls ==
    \/ Call
    \/ InsertBalance
    \/ StartChunks
    \/ ExecChunk
    \/ FinishChunks
    \/ Return

SpecCalls == Init /\ [][NextCalls]_vars

(***************************************************************************)
(* The transfer classifier, applied to every Transfer of the bounded sets  *)
(***************************************************************************)
InitTx ==
    /\ InitWriter
    /\ IbcOff
    /\ RelayOff
    /\ txPc = "input"
    /\ txData \in Transfers
    /\ txKind = NoKind

Classify ==
    /\ txPc = "input"
    /\ txKind' = transfer_to_tx_kind(txData)
    /\ txPc' = "classified"
    /\ UNCHANGED <<txData, writerVars, ibcVars, relayVars>>

NextTx == Classify

SpecTx == InitTx /\ [][NextTx]_vars

(***************************************************************************)
(* The trace resolver, applied to every input of the bounded sets          *)
(***************************************************************************)
InitTrace ==
    /\ InitWriter
    /\ TxOff
    /\ RelayOff
    /\ ibcPc = "input"
    /\ ibcIn \in TraceInputs
    /\ ibcTrace = None

Resolve ==
    /\ ibcPc = "input"
    /\ ibcTrace' = get_namada_ibc_trace(ibcIn.sender_denom,
                                        ibcIn.sender_port,
                                        ibcIn.sender_channel,
                                        ibcIn.receiver_port,
                                        ibcIn.receiver_channel)
    /\ ibcPc' = "resolved"
    /\ UNCHANGED <<ibcIn, writerVars, txVars, relayVars>>

NextTrace == Resolve

SpecTrace == InitTrace /\ [][NextTrace]_vars

(***************************************************************************)
(* Properties of the ledger writer                                         *)
(***************************************************************************)
\* row i of batch b is the last row of b with its key among the first n rows
LastOfKey(b, n, i) == \A j \in (i + 1)..n : Key(b[j]) # Key(b[i])

\* The table expected once the first n rows of b have been written over t0,
\* stated row by row: rows of t0 with other keys, and for each key written
\* its last row
Written(t0, b, n) ==
    {x \in t0 : \A j \in 1..n : Key(b[j]) # Key(x)}
        \cup {b[i] : i \in {j \in 1..n : LastOfKey(b, n, j)}}

RowsOfKey(t, k) == {x \in t : Key(x) = k}

Succeeded == pc = "done" /\ result.ok

\* C1: when a call writes (owner, token, a2) over a row (owner, token, a1)
\* left by an earlier call, a1 # a2, the table then holds exactly one row
\* for (owner, token) and its raw_amount is a2.
C1_LastWriteWins ==
    Succeeded =>
        \A i \in 1..Len(balances) : \A old \in tableAtCall :
            (/\ Key(old) = Key(balances[i])
             /\ old.raw_amount # balances[i].raw_amount
             /\ LastOfKey(balances, Len(balances), i))
            => RowsOfKey(table, Key(balances[i])) = {balances[i]}

C1_Witness ==
    /\ Succeeded
    /\ op = "insert_balance"
    /\ \E i \in 1..Len(balances) : \E old \in tableAtCall :
        /\ Key(old) = Key(balances[i])
        /\ old.raw_amount # balances[i].raw_amount
        /\ balances[i] \in table

\* ceil(n / k), stated by its defining inequalities
CeilDiv(n, k) == CHOOSE q \in 0..n : q * k >= n /\ (q - 1) * k < n

\* C2: insert_balance_in_chunks issues ceil(N / floor(65535 / C)) upsert
\* statements for N rows and C columns, none of them with more than
\* floor(65535 / C) rows; 70 000 rows of 3 columns take 4 statements.
C2_ChunkCount ==
    /\ (op = "insert_balance_in_chunks" /\ stmts # <<>>) =>
        \A i \in 1..Len(stmts) :
            stmts[i].rows <= MAX_PARAM_SIZE \div colCount
    /\ (op = "insert_balance_in_chunks" /\ Succeeded) =>
        Len(stmts) = CeilDiv(Len(balances), MAX_PARAM_SIZE \div colCount)
    /\ NumChunks(70000, ChunkSize(3)) = 4

C2_Witness ==
    /\ op = "insert_balance_in_chunks"
    /\ Succeeded
    /\ Len(stmts) = 2
    /\ Len(balances) = 2

\* C7: running a batch a second time leaves the table as it was after the
\* first run, whenever the second run ends as the first did (both return Ok,
\* or both fail at the same statement).
C7_Idempotent ==
    (/\ run = 2
     /\ pc = "done"
     /\ result.ok = firstResult.ok
     /\ Len(stmts) = Len(firstStmts))
    => table = firstTable

C7_Witness ==
    /\ run = 2
    /\ Succeeded
    /\ firstResult.ok
    /\ Len(stmts) = 2
    /\ \E i, j \in 1..Len(balances) :
        /\ i < j
        /\ Key(balances[i]) = Key(balances[j])
        /\ balances[i].raw_amount # balances[j].raw_amount

FailedInChunk ==
    /\ op = "insert_balance_in_chunks"
    /\ pc = "done"
    /\ ~result.ok
    /\ stmts # <<>>

\* C8: when the statement of chunk i fails, insert_balance_in_chunks returns
\* the error, no statement of a later chunk is issued, and the rows of
\* chunks 0..i-1 stay written in the scope.
C8_FailureStops ==
    /\ op = "insert_balance_in_chunks" =>
        \A i \in 1..(Len(stmts) - 1) : stmts[i].ok
    /\ FailedInChunk =>
        /\ ~stmts[Len(stmts)].ok
        /\ Len(stmts) = chunkIdx + 1
        /\ table = Written(tableAtCall, balances,
                           chunkIdx * (MAX_PARAM_SIZE \div colCount))

C8_Witness ==
    /\ FailedInChunk
    /\ chunkIdx = 1
    /\ table # tableAtCall
    /\ SeqRows(Chunk(balances, ChunkSize(colCount), 0)) \subseteq table

InCall == pc \in {"called", "chunks", "done", "panicked"}

TableKeys(t) == {Key(x) : x \in t}

\* C14: a call changes only rows whose (owner, token) is in the batch: every
\* other stored row stays as it was, no row with another key appears, and an
\* empty batch leaves the table as it was.
C14_OtherKeysUntouched ==
    InCall =>
        /\ table # tableAtCall =>
            LET keys == SeqKeys(balances) IN
            \A x \in (table \ tableAtCall) \cup (tableAtCall \ table) :
                Key(x) \in keys
        /\ balances = <<>> => table = tableAtCall

C14_Witness ==
    /\ Succeeded
    /\ \E x \in tableAtCall : \E i, j \in 1..Len(balances) :
        /\ balances[i].owner = x.owner /\ balances[i].token # x.token
        /\ balances[j].owner # x.owner /\ balances[j].token = x.token
        /\ balances[i].raw_amount # x.raw_amount
        /\ {x, balances[i], balances[j]} \subseteq table

\* the orders in which n chunks, numbered from 0, can be executed
RECURSIVE OrdersOf(_)
OrdersOf(S) ==
    IF S = {}
    THEN {<<>>}
    ELSE UNION {{<<c>> \o rest : rest \in OrdersOf(S \ {c})} : c \in S}

ChunkOrders(n) == OrdersOf(0..(n - 1))

\* the table after the chunks of b are upserted in the given order
RECURSIVE ApplyChunksInOrder(_, _, _, _)
ApplyChunksInOrder(t, b, k, order) ==
    IF order = <<>>
    THEN t
    ELSE ApplyChunksInOrder(OnConflictDoUpdate(t, Chunk(b, k, Head(order))),
                            b, k, Tail(order))

ChunkOf(i, k) == (i - 1) \div k

KeyInTwoChunks(b, k) ==
    \E i, j \in 1..Len(b) :
        ChunkOf(i, k) # ChunkOf(j, k) /\ Key(b[i]) = Key(b[j])

\* position of chunk c in an order
PlaceIn(order, c) == CHOOSE n \in 1..Len(order) : order[n] = c

ChunkedOk == op = "insert_balance_in_chunks" /\ Succeeded

\* C15 as stated: whatever the order in which the chunks are executed, the
\* table is the one the input order gives, also when a key is in two chunks.
C15_AnyOrderSameTable ==
    ChunkedOk =>
        \A p \in ChunkOrders(Len(stmts)) :
            ApplyChunksInOrder(tableAtCall, balances,
                               MAX_PARAM_SIZE \div colCount, p) = table

\* C15 amended: the order of the chunks does not change the table when no
\* (owner, token) is in two chunks; a key that is in two chunks ends with the
\* amount of the chunk executed last, so the order then decides.
C15_OrderFreeForDistinctKeys ==
    ChunkedOk =>
        LET k == MAX_PARAM_SIZE \div colCount
            distinct == ~KeyInTwoChunks(balances, k)
        IN
        \A p \in ChunkOrders(Len(stmts)) :
            LET t == ApplyChunksInOrder(tableAtCall, balances, k, p) IN
            /\ distinct => t = table
            /\ \A i \in 1..Len(balances) :
                (\A j \in 1..Len(balances) :
                    Key(balances[j]) = Key(balances[i])
                    => PlaceIn(p, ChunkOf(j, k)) <= PlaceIn(p, ChunkOf(i, k)))
                => RowsOfKey(t, Key(balances[i])) = {balances[i]}

C15_Witness ==
    /\ ChunkedOk
    /\ Len(stmts) = 2
    /\ Len(balances) = 2
    /\ ~KeyInTwoChunks(balances, MAX_PARAM_SIZE \div colCount)
    /\ balances[1].owner = balances[2].owner
    /\ tableAtCall # {}
    /\ table # tableAtCall
    /\ ApplyChunksInOrder(tableAtCall, balances,
                          MAX_PARAM_SIZE \div colCount, <<1, 0>>) = table

UniqueKeys(t) == Cardinality(TableKeys(t)) = Cardinality(t)

\* C16: no two rows of the table share (owner, token), and every key stored
\* when a call began, or when the first of two runs ended, is still stored:
\* the writer deletes no row.
C16_UniqueKeysNoDelete ==
    /\ UniqueKeys(table)
    /\ InCall => TableKeys(tableAtCall) \subseteq TableKeys(table)
    /\ run = 2 => TableKeys(firstTable) \subseteq TableKeys(table)

C16_Witness ==
    /\ run = 2
    /\ FailedInChunk
    /\ chunkIdx = 1
    /\ \E x \in tableAtCall : \E y \in table :
        Key(x) = Key(y) /\ x.raw_amount # y.raw_amount
    /\ Cardinality(table) >= 2

\* C18 as stated: whatever count the catalog reports, the chunk capacity is
\* at least 1 and the call ends by returning, never by a panic.
C18_NeverPanics ==
    /\ pc # "panicked"
    /\ pc = "chunks" => (colCount # 0 /\ MAX_PARAM_SIZE \div colCount >= 1)

(***************************************************************************)
(* Properties of the transfer classifier                                   *)
(***************************************************************************)
LocalKinds ==
    {"ShieldedTransfer", "UnshieldingTransfer", "ShieldingTransfer",
     "TransparentTransfer", "MixedTransfer"}

\* The predicates of the decision table, stated on the accounts themselves
AllMasp(m) == \A a \in DOMAIN m : a.owner = MASP_ADDRESS
AnyMasp(m) == \E a \in DOMAIN m : a.owner = MASP_ADDRESS

EmptyShortCircuit(d) ==
    d.shielded_section_hash /\ DOMAIN d.sources = {} /\ DOMAIN d.targets = {}

Row1(d) == AllMasp(d.sources) /\ AllMasp(d.targets) /\ d.shielded_section_hash
Row2(d) == AllMasp(d.sources) /\ ~AnyMasp(d.targets) /\ d.shielded_section_hash
Row3(d) == ~AnyMasp(d.sources) /\ AllMasp(d.targets) /\ d.shielded_section_hash
Row4(d) ==
    ~AnyMasp(d.sources) /\ ~AnyMasp(d.targets) /\ ~d.shielded_section_hash

Classified == txPc = "classified"

\* C3: every Transfer is classified as one of the five local kinds, and a
\* Transfer that matches no row of the decision table (nor the empty
\* short-circuit) is a MixedTransfer.
C3_TotalAndDefaultMixed ==
    Classified =>
        /\ txKind.kind \in LocalKinds
        /\ txKind.data = txData
        /\ (/\ ~EmptyShortCircuit(txData)
            /\ ~Row1(txData) /\ ~Row2(txData)
            /\ ~Row3(txData) /\ ~Row4(txData))
           => txKind.kind = "MixedTransfer"

C3_Witness ==
    /\ Classified
    /\ ~EmptyShortCircuit(txData)
    /\ ~Row1(txData) /\ ~Row2(txData) /\ ~Row3(txData) /\ ~Row4(txData)
    /\ txData.shielded_section_hash
    /\ ~AnyMasp(txData.sources)
    /\ ~AnyMasp(txData.targets)
    /\ txKind.kind = "MixedTransfer"

\* C4: a Transfer with a shielded section and neither sources nor targets is
\* a ShieldedTransfer, returned before the masp flags are folded.
C4_EmptyShortCircuit ==
    (Classified /\ EmptyShortCircuit(txData)) =>
        /\ txKind.kind = "ShieldedTransfer"
        /\ txKind.arm = "early"

C4_Witness ==
    /\ Classified
    /\ EmptyShortCircuit(txData)
    /\ txKind.kind = "ShieldedTransfer"

\* C5: a Transfer with no masp-owned account among its sources or targets
\* (either side may be empty) and no shielded section is a
\* TransparentTransfer.
C5_Transparent ==
    (/\ Classified
     /\ ~AnyMasp(txData.sources)
     /\ ~AnyMasp(txData.targets)
     /\ ~txData.shielded_section_hash)
    => txKind.kind = "TransparentTransfer"

C5_Witness ==
    /\ Classified
    /\ DOMAIN txData.sources = {}
    /\ DOMAIN txData.targets # {}
    /\ ~AnyMasp(txData.targets)
    /\ ~txData.shielded_section_hash
    /\ txKind.kind = "TransparentTransfer"

\* C6: past the empty short-circuit the first matching row decides, in the
\* order Shielded, Unshielding, Shielding; "all" of an empty side is true
\* and "any" of an empty side is false.
C6_FirstMatchWins ==
    (Classified /\ ~EmptyShortCircuit(txData)) =>
        /\ Row1(txData) => txKind.kind = "ShieldedTransfer"
        /\ (~Row1(txData) /\ Row2(txData))
            => txKind.kind = "UnshieldingTransfer"
        /\ (~Row1(txData) /\ ~Row2(txData) /\ Row3(txData))
            => txKind.kind = "ShieldingTransfer"

C6_Witness ==
    /\ Classified
    /\ ~EmptyShortCircuit(txData)
    /\ Row1(txData)
    /\ Row2(txData)
    /\ DOMAIN txData.targets = {}
    /\ txKind.kind = "ShieldedTransfer"

(***************************************************************************)
(* Properties of the trace resolver                                        *)
(***************************************************************************)
Resolved == ibcPc = "resolved"

BeginsWith(str, port, channel) ==
    Len(str) >= 2 /\ str[1] = port /\ str[2] = channel

RemoteNative ==
    ~StartsWith(ibcIn.sender_denom.trace_path,
                TracePrefixNew(ibcIn.sender_port, ibcIn.sender_channel))

ReceiverStamped ==
    /\ ibcTrace.some
    /\ BeginsWith(ibcTrace.value, ibcIn.receiver_port, ibcIn.receiver_channel)
    /\ SubSeq(ibcTrace.value, 3, Len(ibcTrace.value))
        = FormatDenom(ibcIn.sender_denom)

\* C10 as stated: for a trace that does not start with the sender's prefix
\* the result is receiver_port/receiver_channel/<denom>, which begins with
\* the receiver's port and channel and never with the sender's.
C10_NeverSenders ==
    (Resolved /\ RemoteNative) =>
        /\ ReceiverStamped
        /\ ~BeginsWith(ibcTrace.value, ibcIn.sender_port,
                       ibcIn.sender_channel)

\* C10 amended: for a trace that does not start with the sender's prefix the
\* result is receiver_port/receiver_channel/<denom>, which begins with the
\* receiver's port and channel, and with the sender's only when the sender's
\* port and channel are the receiver's.
C10_ReceiverStamped ==
    (Resolved /\ RemoteNative) =>
        /\ ReceiverStamped
        /\ BeginsWith(ibcTrace.value, ibcIn.sender_port, ibcIn.sender_channel)
            => (/\ ibcIn.sender_port = ibcIn.receiver_port
                /\ ibcIn.sender_channel = ibcIn.receiver_channel)

C10_Witness ==
    /\ Resolved
    /\ RemoteNative
    /\ ibcIn.sender_denom.trace_path # <<>>
    /\ ibcIn.sender_channel # ibcIn.receiver_channel
    /\ ReceiverStamped

\* the trace is the sender's prefix alone: stripped of it, it is empty
LocalNative ==
    /\ Len(ibcIn.sender_denom.trace_path) = 1
    /\ ibcIn.sender_denom.trace_path[1]
        = TracePrefixNew(ibcIn.sender_port, ibcIn.sender_channel)

\* C11: a trace that starts with the sender's prefix and is empty once the
\* prefix is stripped resolves to None, never to a synthesized trace, and
\* None is returned in no other case.
C11_NoneIffLocalNative ==
    Resolved =>
        /\ LocalNative => (ibcTrace = None /\ ~ibcTrace.some)
        /\ ~LocalNative => (ibcTrace.some /\ ibcTrace.value # <<>>)

C11_Witness ==
    /\ Resolved
    /\ LocalNative
    /\ ibcTrace = None

(***************************************************************************)
(* The relayed classifier, applied to every message of the bounded sets    *)
(***************************************************************************)
InitRelay ==
    /\ InitWriter
    /\ TxOff
    /\ IbcOff
    /\ relayPc = "input"
    /\ relayMsg \in IbcMessages
    /\ relayNative \in NativeTokens
    /\ relayOut = NoRelayOut

ClassifyRelayed ==
    /\ relayPc = "input"
    /\ relayOut' = transfer_to_ibc_tx_kind(relayMsg, relayNative)
    /\ relayPc' = IF relayOut'.outcome = "panic" THEN "panicked" ELSE "returned"
    /\ UNCHANGED <<relayMsg, relayNative, writerVars, txVars, ibcVars>>

NextRelay == ClassifyRelayed

SpecRelay == InitRelay /\ [][NextRelay]_vars

(***************************************************************************)
(* Properties of the relayed classifier                                    *)
(***************************************************************************)
RelayDone == relayPc \in {"returned", "panicked"}

IsRecvFungible ==
    /\ relayMsg.variant = "Envelope"
    /\ relayMsg.packet = "Recv"
    /\ relayMsg.port_id_on_b = FT_PORT_ID_STR

IsOutgoing == relayMsg.variant = "Transfer"

\* the trace of the received packet, as the resolver gives it
RecvTrace ==
    get_namada_ibc_trace(relayMsg.denom, relayMsg.port_id_on_a,
                         relayMsg.chan_id_on_a, relayMsg.port_id_on_b,
                         relayMsg.chan_id_on_b)

\* a decodable received packet whose trace resolves to None while its
\* denomination is not the native token's
NativeMismatch ==
    /\ IsRecvFungible
    /\ relayMsg.decodes
    /\ ~RecvTrace.some
    /\ relayMsg.denom.base_denom # relayNative

CarriesNative ==
    /\ relayOut.outcome = "kind"
    /\ relayOut.kind # "IbcMsg"
    /\ relayOut.token_id.token = "Native"

\* C12: when the trace of a received packet resolves to None but its
\* denomination does not match the native token, the classifier returns a
\* consistency-violation fault as a typed result: it neither aborts nor
\* returns a kind carrying the Native token.
C12_MismatchIsTypedFault ==
    (RelayDone /\ NativeMismatch) =>
        /\ relayOut.outcome = "fault"
        /\ relayPc # "panicked"
        /\ ~CarriesNative

\* a message outside the fungible-token and envelope formats: an NFT transfer,
\* a received packet on a port other than the fungible-token port, or an
\* envelope that is not a received packet
OutsideFungible ==
    \/ relayMsg.variant = "NftTransfer"
    \/ /\ relayMsg.variant = "Envelope"
       /\ relayMsg.packet = "Recv"
       /\ relayMsg.port_id_on_b # FT_PORT_ID_STR
    \/ /\ relayMsg.variant = "Envelope"
       /\ relayMsg.packet # "Recv"

\* C13: every relayed message outside the fungible-token formats, NFT
\* transfers included, is classified IbcMsg carrying the message as it came,
\* never an error or an abort.
C13_UnsupportedPassesThrough ==
    (RelayDone /\ OutsideFungible) =>
        /\ relayPc = "returned"
        /\ relayOut = IbcMsg(relayMsg)

TransferKinds ==
    {"IbcShieldingTransfer", "IbcTrasparentTransfer", "IbcUnshieldingTransfer"}

Owner(accounts) == (CHOOSE a \in DOMAIN accounts : TRUE).owner

AmountOf(accounts) == accounts[CHOOSE a \in DOMAIN accounts : TRUE]

OneToOne(data) ==
    /\ Cardinality(DOMAIN data.sources) = 1
    /\ Cardinality(DOMAIN data.targets) = 1
    /\ AmountOf(data.sources) = AmountOf(data.targets)
    /\ AmountOf(data.sources).amount = relayMsg.amount

\* C17: a kind returned for a fungible-token message carries a transfer with
\* exactly one source and one target of the same amount; the bridge account
\* is the source of a received packet and the target of an outgoing
\* transfer; a received packet is IbcShieldingTransfer exactly when the
\* envelope carries a MASP transaction and IbcTrasparentTransfer otherwise;
\* an outgoing transfer is IbcUnshieldingTransfer exactly when it carries a
\* shielded Transfer and IbcTrasparentTransfer otherwise.
C17_OneSourceOneTarget ==
    (relayPc = "returned" /\ (IsRecvFungible \/ IsOutgoing)) =>
        /\ relayOut.kind \in TransferKinds
        /\ OneToOne(relayOut.data)
        /\ IsRecvFungible =>
            /\ Owner(relayOut.data.sources) = IBC
            /\ Owner(relayOut.data.targets) = relayMsg.receiver
            /\ relayOut.kind = IF relayMsg.masp_tx
                               THEN "IbcShieldingTransfer"
                               ELSE "IbcTrasparentTransfer"
        /\ IsOutgoing =>
            /\ Owner(relayOut.data.sources) = relayMsg.sender
            /\ Owner(relayOut.data.targets) = IBC
            /\ relayOut.kind = IF relayMsg.transfer.some
                               THEN "IbcUnshieldingTransfer"
                               ELSE "IbcTrasparentTransfer"

C17_Witness ==
    /\ relayPc = "returned"
    /\ IsRecvFungible
    /\ relayMsg.masp_tx
    /\ relayOut.kind = "IbcShieldingTransfer"
    /\ relayOut.token_id.token = "Ibc"
    /\ Owner(relayOut.data.sources) = IBC

====
